---- MODULE Spec2Model ----
(***************************************************************************)
(* Pipeline Pilot: the plan-generation route (POST /api/plan).             *)
(*                                                                         *)
(* The route handler and buildFallbackPlan are translated from             *)
(* src/README.md lines 42-209 (the route module).  leadRequestSchema       *)
(* (lib/schemas) and tryParsePlan (lib/types) are modelled from sections   *)
(* 4.1 and 4.3 of the specification.  The prompt text built by             *)
(* buildLeadPlanPrompt (lib/prompt) does not influence the handler's       *)
(* control flow and is not represented.                                    *)
(*                                                                         *)
(* Strings are sequences of text segments: a one-character segment for a   *)
(* user-typed character, a longer segment for a literal of a template.     *)
(* A nullable / optional value v is None (<<>>) or Some(v) (<<v>>).        *)
(***************************************************************************)
EXTENDS Integers, Sequences, FiniteSets, TLC

\* ------------------------------------------------------------------ bounds
MaxLen == 2
MaxChannels == 2
MaxJunk == 1

\* ----------------------------------------------------------- basic helpers
None == <<>>
Some(v) == <<v>>
IsSome(o) == Len(o) = 1
Val(o) == o[1]

RECURSIVE SeqsUpTo(_, _)
SeqsUpTo(S, n) ==
  IF n = 0 THEN {<<>>}
  ELSE LET shorter == SeqsUpTo(S, n - 1)
       IN  shorter \cup {Append(s, x) : s \in {t \in shorter : Len(t) = n - 1}, x \in S}

\* ----------------------------------------------------------------- strings
Chars == {"A", " "}

LowerChar(c) == IF c = "A" THEN "a" ELSE c

ToLowerCase(s) == [i \in DOMAIN s |-> LowerChar(s[i])]

RECURSIVE Trim(_)
Trim(s) ==
  IF s = <<>> THEN s
  ELSE IF Head(s) = " " THEN Trim(Tail(s))
  ELSE IF s[Len(s)] = " " THEN Trim(SubSeq(s, 1, Len(s) - 1))
  ELSE s

\* ------------------------------------------------- request schema (4.1)
GoalOptions == {"Book discovery calls", "Increase demo requests"}
ChannelOptions == {"Cold email", "LinkedIn outreach", "Webinars"}
ToneOptions == {"Data-driven"}
BudgetLevels == {"lean", "balanced", "aggressive"}
TimeframeOptions == {"2 weeks", "30 days", "90 days"}

StringFields == {"businessName", "industry", "productDescription",
                 "targetCustomer", "uniqueValue", "offer"}
ListFields == {"goals", "channels"}
EnumFields == {"tone", "budgetLevel", "timeframe"}

EnumOf(f) ==
  CASE f = "goals" -> GoalOptions
    [] f = "channels" -> ChannelOptions
    [] f = "tone" -> ToneOptions
    [] f = "budgetLevel" -> BudgetLevels
    [] f = "timeframe" -> TimeframeOptions

RECURSIVE Dedupe(_)
Dedupe(s) ==
  IF s = <<>> THEN s
  ELSE LET front == Dedupe(SubSeq(s, 1, Len(s) - 1))
           last == s[Len(s)]
       IN  IF \E i \in DOMAIN front : front[i] = last THEN front
           ELSE Append(front, last)

\* The first violation of a field, None when the field is acceptable.
FieldError(f, o) ==
  IF ~IsSome(o) THEN Some("Required")
  ELSE IF f \in StringFields
    THEN IF Trim(Val(o)) = <<>> THEN Some("Must not be empty") ELSE None
  ELSE IF f \in ListFields
    THEN IF \E i \in DOMAIN Val(o) : Val(o)[i] \notin EnumOf(f)
           THEN Some("Invalid enum value")
         ELSE IF Val(o) = <<>> THEN Some("Select at least one")
         ELSE None
  ELSE IF Val(o) \notin EnumOf(f) THEN Some("Invalid enum value")
  ELSE None

RequiredFields == StringFields \cup ListFields \cup EnumFields

FailingFields(obj) == {f \in RequiredFields : IsSome(FieldError(f, obj[f]))}

CleanField(f, o) ==
  IF f \in StringFields THEN Trim(Val(o))
  ELSE IF f \in ListFields THEN Dedupe(Val(o))
  ELSE IF f = "notes" THEN (IF IsSome(o) THEN Some(Trim(Val(o))) ELSE None)
  ELSE Val(o)

\* leadRequestSchema.safeParse(raw)
safeParse(raw) ==
  IF raw.kind # "object"
    THEN [success |-> FALSE,
          error |-> [formErrors |-> <<"Expected object">>,
                     fieldErrors |-> [f \in {} |-> None]]]
  ELSE IF FailingFields(raw.obj) # {}
    THEN [success |-> FALSE,
          error |-> [formErrors |-> <<>>,
                     fieldErrors |-> [f \in FailingFields(raw.obj) |->
                                        Val(FieldError(f, raw.obj[f]))]]]
  ELSE [success |-> TRUE,
        data |-> [f \in DOMAIN raw.obj |-> CleanField(f, raw.obj[f])]]

\* --------------------------------------------- buildFallbackPlan (route)
\* The timeframe compared with a value that never occurs.
ChannelPlay_CadenceAlwaysWeekly(payload, channel) ==
  [channel |-> channel,
   objective |-> <<"Drive ">> \o ToLowerCase(payload.offer) \o <<" conversions.">>,
   play |-> <<"Run a ", payload.budgetLevel,
              " budget program combining intent data and manual research.">>,
   cadence |-> IF payload.timeframe = "2 Weeks" THEN "3x weekly" ELSE "Weekly",
   sampleCopy |-> <<"Hi {{first_name}}, ">> \o payload.offer]

ChannelPlay(payload, channel) ==
  [channel |-> channel,
   objective |-> <<"Drive ">> \o ToLowerCase(payload.offer) \o <<" conversions.">>,
   play |-> <<"Run a ", payload.budgetLevel,
              " budget program combining intent data and manual research.">>,
   cadence |-> IF payload.timeframe = "2 weeks" THEN "3x weekly" ELSE "Weekly",
   sampleCopy |-> <<"Hi {{first_name}}, ">> \o payload.offer]

\* The first selected channel skipped.
channelStrategy_SkipFirst(payload) ==
  [i \in 1..(Len(payload.channels) - 1) |->
     ChannelPlay(payload, payload.channels[i + 1])]

\* The plays emitted in reverse order of selection.
channelStrategy_Reversed(payload) ==
  [i \in DOMAIN payload.channels |->
     ChannelPlay(payload, payload.channels[Len(payload.channels) + 1 - i])]

\* payload.channels.map((channel) => ({...}))
channelStrategy(payload) ==
  [i \in DOMAIN payload.channels |-> ChannelPlay(payload, payload.channels[i])]

buildFallbackPlan(payload) ==
  [campaignSummary |->
     [northStar |-> <<"Generate qualified pipeline for ">> \o payload.businessName
                    \o <<" within ", payload.timeframe, ".">>,
      successMetrics |-> <<"Meetings booked per week", "Reply rate %",
                           "Pipeline value influenced">>,
      positioningTheme |-> <<"Position as the ">> \o ToLowerCase(payload.uniqueValue)],
   idealCustomerProfile |->
     [companyTraits |-> << <<"Operates in ">> \o payload.industry,
                           <<"Mid-market to enterprise accounts">>,
                           <<"Teams with urgent need for modernization">> >>,
      buyerPersona |-> <<"Economic buyer: VP / Director level stakeholder",
                         "Technical champion: hands-on practitioner",
                         "Influencer: adjacent department peer">>,
      painPoints |-> <<"Manual workflows causing wasted spend",
                       "Pressure to show ROI quickly",
                       "Need to differentiate in competitive market">>],
   messagingPillars |->
     << [title |-> "Value driver",
         angle |-> <<"Highlight how ">> \o ToLowerCase(payload.productDescription)
                   \o <<" unlocks measurable ROI.">>,
         proofPoints |-> <<"Quantify time or cost savings",
                           "Reference a key customer win",
                           "Mention implementation support">>],
        [title |-> "Risk reducer",
         angle |-> <<"Show how the offer reduces risk compared to current status quo.">>,
         proofPoints |-> <<"Share guarantee or SLA",
                           "Provide social proof snippet",
                           "Emphasize ease-of-adoption">>] >>,
   channelStrategy |-> channelStrategy(payload),
   automationWorkflow |->
     << [name |-> "Prompt follow-up sequence",
         trigger |-> "Form submission or positive reply",
         steps |-> <<"Send tailored follow-up within 4 hours",
                     "Share relevant asset on day 3",
                     "Escalate to call invite on day 5 if no response">>] >>,
   experiments |->
     << [hypothesis |-> "Referencing a mutual connection increases cold outreach replies.",
         experiment |-> "Test LinkedIn InMail templates with social proof block.",
         metric |-> "Positive reply rate"],
        [hypothesis |-> "Offering a quick teardown boosts meeting bookings.",
         experiment |-> "Cold email variant offering 15-min audit.",
         metric |-> "Meetings booked"] >>,
   nextSteps |-> <<"Finalize lead list with top 200 accounts",
                   "Draft channel-specific outreach scripts",
                   "Enable experiment tracking dashboard",
                   "Launch in waves and optimize weekly">>]

\* ------------------------------------- CampaignPlan shape (section 3)
NonEmptyList(l) == Len(l) >= 1

ValidPlan(p) ==
  /\ NonEmptyList(p.campaignSummary.successMetrics)
  /\ NonEmptyList(p.idealCustomerProfile.companyTraits)
  /\ NonEmptyList(p.idealCustomerProfile.buyerPersona)
  /\ NonEmptyList(p.idealCustomerProfile.painPoints)
  /\ NonEmptyList(p.messagingPillars)
  /\ \A i \in DOMAIN p.messagingPillars : NonEmptyList(p.messagingPillars[i].proofPoints)
  /\ NonEmptyList(p.channelStrategy)
  /\ NonEmptyList(p.automationWorkflow)
  /\ \A i \in DOMAIN p.automationWorkflow : NonEmptyList(p.automationWorkflow[i].steps)
  /\ NonEmptyList(p.experiments)
  /\ NonEmptyList(p.nextSteps)

\* ------------------------------------------- model output text (4.3)
\* A model text is a sequence of tokens: "x" is prose, "{" and "}" are
\* braces, "P" is the member list of a complete plan object and "Q" the
\* member list of a plan object whose nextSteps list is empty.
ModelPlan ==
  [campaignSummary |-> [northStar |-> <<"N">>, successMetrics |-> <<"m">>,
                        positioningTheme |-> <<"T">>],
   idealCustomerProfile |-> [companyTraits |-> << <<"t">> >>, buyerPersona |-> <<"b">>,
                             painPoints |-> <<"p">>],
   messagingPillars |-> << [title |-> "t", angle |-> <<"a">>, proofPoints |-> <<"pp">>] >>,
   channelStrategy |-> << [channel |-> "Cold email", objective |-> <<"o">>,
                           play |-> <<"pl">>, cadence |-> "Daily",
                           sampleCopy |-> <<"c">>] >>,
   automationWorkflow |-> << [name |-> "n", trigger |-> "tr", steps |-> <<"s">>] >>,
   experiments |-> << [hypothesis |-> "h", experiment |-> "e", metric |-> "m"] >>,
   nextSteps |-> <<"s1">>]

Members(tok) ==
  IF tok = "P" THEN ModelPlan ELSE [ModelPlan EXCEPT !.nextSteps = <<>>]

\* JSON decode of a text followed by the CampaignPlan shape check:
\* Some(plan) when both succeed, None otherwise.
DecodePlan(text) ==
  IF Len(text) = 3 /\ text[1] = "{" /\ text[3] = "}" /\ text[2] \in {"P", "Q"}
       /\ ValidPlan(Members(text[2]))
    THEN Some(Members(text[2]))
    ELSE None

FirstIndexOf(text, tok) ==
  IF \E i \in DOMAIN text : text[i] = tok
    THEN CHOOSE i \in DOMAIN text :
           text[i] = tok /\ \A j \in DOMAIN text : text[j] = tok => i <= j
    ELSE 0

LastIndexOf(text, tok) ==
  IF \E i \in DOMAIN text : text[i] = tok
    THEN CHOOSE i \in DOMAIN text :
           text[i] = tok /\ \A j \in DOMAIN text : text[j] = tok => j <= i
    ELSE 0

\* The first balanced-looking span: first "{" to the first "}" after it.
BraceSpan_FirstClose(text) ==
  LET first == FirstIndexOf(text, "{")
      closes == {i \in DOMAIN text : text[i] = "}" /\ i > first}
  IN  IF first # 0 /\ closes # {}
        THEN Some(SubSeq(text, first,
                         CHOOSE i \in closes : \A j \in closes : i <= j))
        ELSE None

\* The outermost brace span: first "{" to last "}".
BraceSpan(text) ==
  LET first == FirstIndexOf(text, "{")
      last == LastIndexOf(text, "}")
  IN  IF first # 0 /\ last > first THEN Some(SubSeq(text, first, last)) ELSE None

RecoveredMessage == "Recovered plan from model output"
UnparseableMessage == "model output could not be parsed as a structured plan"

tryParsePlan(text) ==
  IF IsSome(DecodePlan(text))
    THEN [plan |-> DecodePlan(text), raw |-> None, message |-> None]
  ELSE IF IsSome(BraceSpan(text)) /\ IsSome(DecodePlan(Val(BraceSpan(text))))
    THEN [plan |-> DecodePlan(Val(BraceSpan(text))), raw |-> None,
          message |-> Some(RecoveredMessage)]
  ELSE [plan |-> None, raw |-> Some(text), message |-> Some(UnparseableMessage)]

\* -------------------------------------------------------- request inputs
BaseBrief ==
  [businessName |-> Some(<<"A">>),
   industry |-> Some(<<"A">>),
   productDescription |-> Some(<<"A", " ", "A">>),
   targetCustomer |-> Some(<<"A">>),
   uniqueValue |-> Some(<<"A", "A">>),
   goals |-> Some(<<"Book discovery calls">>),
   channels |-> Some(<<"Cold email">>),
   tone |-> Some("Data-driven"),
   offer |-> Some(<<"A">>),
   notes |-> None,
   budgetLevel |-> Some("balanced"),
   timeframe |-> Some("30 days")]

Optional(S) == {None} \cup {Some(v) : v \in S}

StringInputs == Optional(SeqsUpTo(Chars, MaxLen))
ChannelInputs == Optional(SeqsUpTo(ChannelOptions \cup {"Fax"}, MaxChannels))
GoalInputs == Optional(SeqsUpTo(GoalOptions, 1))
TimeframeInputs == Optional(TimeframeOptions \cup {"1 year"})
BudgetInputs == Optional(BudgetLevels \cup {"free"})
ToneInputs == Optional(ToneOptions \cup {"Sarcastic"})

BriefObjects ==
  {[BaseBrief EXCEPT !.businessName = n, !.channels = c, !.timeframe = t] :
     n \in StringInputs, c \in ChannelInputs, t \in TimeframeInputs}
  \cup {[BaseBrief EXCEPT !.offer = o, !.budgetLevel = b] :
     o \in StringInputs, b \in BudgetInputs}
  \cup {[BaseBrief EXCEPT !.goals = g, !.tone = t, !.notes = n] :
     g \in GoalInputs, t \in ToneInputs, n \in {None, Some(<<" ", "A">>)}}

\* What the request carries: text that is not JSON, a JSON value that is
\* not an object, or a JSON object.
Bodies ==
  {[kind |-> k, obj |-> BaseBrief] : k \in {"notjson", "scalar"}}
  \cup {[kind |-> "object", obj |-> o] : o \in BriefObjects}

\* process.env.OPENAI_API_KEY: unset, empty, or set.
ApiKeys == {None, Some(<<>>), Some(<<"sk-key">>)}

\* The key tested for being set instead of for being truthy.
Truthy_IsSet(o) == IsSome(o)

Truthy(o) == IsSome(o) /\ Val(o) # <<>>

\* --------------------------------------------------- model collaborator
Junk == SeqsUpTo({"x", "{", "}"}, MaxJunk)
Cores == {<<>>, <<"{", "}">>, <<"{", "P", "}">>, <<"{", "Q", "}">>}
Texts == {pre \o core \o suf : pre \in Junk, core \in Cores, suf \in Junk}

Completions ==
  {[choices |-> <<>>]}
  \cup {[choices |-> << [message |-> [content |-> c]] >>] : c \in Optional(Texts)}

ModelErrors == {"ETIMEDOUT", "401 Unauthorized"}

\* completion.choices?.[0]?.message?.content ?? ""
ResponseText(completion) ==
  IF completion.choices = <<>> THEN <<>>
  ELSE IF ~IsSome(completion.choices[1].message.content) THEN <<>>
  ELSE Val(completion.choices[1].message.content)

\* ------------------------------------------------------------ responses
NoKeyWarning ==
  "OPENAI_API_KEY is not configured. Responding with a heuristic fallback plan."
CallFailedWarning ==
  "Failed to generate plan with OpenAI. Provided a fallback strategy instead."

\* The status option left out: the framework's default status.
InvalidResponse_DefaultStatus(parsed) ==
  [status |-> 200, body |-> [error |-> "Invalid input", issues |-> parsed.error]]

InvalidResponse(parsed) ==
  [status |-> 400, body |-> [error |-> "Invalid input", issues |-> parsed.error]]

FallbackResponse(payload, warning) ==
  [status |-> 200,
   body |-> [plan |-> Some(buildFallbackPlan(payload)), raw |-> None,
             warning |-> warning]]

\* The branches of the raw ternary swapped.
ModelResponse_InvertedRaw(result) ==
  [status |-> 200,
   body |-> [plan |-> result.plan,
             raw |-> IF IsSome(result.plan) THEN result.raw ELSE None,
             notice |-> result.message]]

\* The raw text never copied into the response.
ModelResponse_RawDropped(result) ==
  [status |-> 200,
   body |-> [plan |-> result.plan, raw |-> None, notice |-> result.message]]

ModelResponse(result) ==
  [status |-> 200,
   body |-> [plan |-> result.plan,
             raw |-> IF IsSome(result.plan) THEN None ELSE result.raw,
             notice |-> result.message]]

\* ---------------------------------------------------------------- state
VARIABLES
  body,          \* the body of the inbound request
  apiKey,        \* process.env.OPENAI_API_KEY
  pc,            \* where the handler is: received, awaitingModel, responded, threw
  payload,       \* parsed.data once validation succeeded
  modelCalls,    \* calls of client.chat.completions.create
  fallbackCalls, \* calls of buildFallbackPlan
  responseText,  \* the text taken from the completion
  errorLog,      \* console.error output
  responses,     \* the responses returned to the caller, in order
  \* two requests handled concurrently by the same process
  reqs,          \* per request: the handler's local state
  accessLog,     \* which request read or wrote which process-wide location
  \* the page (React state of Page and the progress of handleSubmit)
  form, errors, loading, plan, rawPlan, statusMessage,
  submit,        \* handleSubmit's position, the payload sent and the reply read
  submitBit,     \* flips at every invocation of handleSubmit
  untouched,     \* the user has neither edited nor submitted since resetForm
  applied        \* the reply the page has applied since the last submit or reset

serverVars == <<body, apiKey, pc, payload, modelCalls, fallbackCalls, responseText,
                errorLog, responses>>
concVars == <<reqs, accessLog>>
pageVars == <<form, errors, loading, plan, rawPlan, statusMessage, submit,
              submitBit, untouched, applied>>
vars == <<serverVars, concVars, pageVars>>

\* The sample the form starts from and resets to.
defaultState ==
  [BaseBrief EXCEPT !.channels = Some(<<"Cold email", "LinkedIn outreach">>),
                    !.notes = Some(<<"A">>)]

\* The parts of the model a specification does not exercise stay as built.
ConcOff == reqs = <<>> /\ accessLog = {}
PageOff ==
  /\ form = defaultState
  /\ errors = <<>>
  /\ loading = FALSE
  /\ plan = None
  /\ rawPlan = None
  /\ statusMessage = None
  /\ submit = [pc |-> "idle"]
  /\ submitBit = FALSE
  /\ untouched = TRUE
  /\ applied = None

Init ==
  /\ body \in Bodies
  /\ apiKey \in ApiKeys
  /\ pc = "received"
  /\ payload = None
  /\ modelCalls = 0
  /\ fallbackCalls = 0
  /\ responseText = None
  /\ errorLog = <<>>
  /\ responses = <<>>
  /\ ConcOff
  /\ PageOff

\* await request.json() rejects: the body is not JSON.  The call is outside
\* the try block, so the handler's promise rejects without a response.
BodyNotJson ==
  /\ pc = "received"
  /\ body.kind = "notjson"
  /\ pc' = "threw"
  /\ UNCHANGED <<body, apiKey, payload, modelCalls, fallbackCalls, responseText,
                 errorLog, responses>>

\* safeParse fails: 400 with the issues.
RejectInvalid ==
  /\ pc = "received"
  /\ body.kind # "notjson"
  /\ ~safeParse(body).success
  /\ responses' = Append(responses, InvalidResponse(safeParse(body)))
  /\ pc' = "responded"
  /\ UNCHANGED <<body, apiKey, payload, modelCalls, fallbackCalls, responseText,
                 errorLog>>

\* The brief is valid and no key is configured: the heuristic plan.
FallbackNoKey ==
  /\ pc = "received"
  /\ body.kind # "notjson"
  /\ safeParse(body).success
  /\ ~Truthy(apiKey)
  /\ payload' = Some(safeParse(body).data)
  /\ fallbackCalls' = fallbackCalls + 1
  /\ responses' = Append(responses,
                         FallbackResponse(safeParse(body).data, NoKeyWarning))
  /\ pc' = "responded"
  /\ UNCHANGED <<body, apiKey, modelCalls, responseText, errorLog>>

\* The brief is valid and a key is configured: the completion is requested
\* and the handler waits for it.
CallModel ==
  /\ pc = "received"
  /\ body.kind # "notjson"
  /\ safeParse(body).success
  /\ Truthy(apiKey)
  /\ payload' = Some(safeParse(body).data)
  /\ modelCalls' = modelCalls + 1
  /\ pc' = "awaitingModel"
  /\ UNCHANGED <<body, apiKey, fallbackCalls, responseText, errorLog, responses>>

\* An unparseable answer replaced by the heuristic plan.
ModelResolves_MaskUnparseable ==
  /\ pc = "awaitingModel"
  /\ \E completion \in Completions :
       LET result == tryParsePlan(ResponseText(completion))
       IN  /\ responseText' = Some(ResponseText(completion))
           /\ IF IsSome(result.plan)
                THEN /\ responses' = Append(responses, ModelResponse(result))
                     /\ fallbackCalls' = fallbackCalls
                ELSE /\ responses' = Append(responses,
                                            FallbackResponse(Val(payload), CallFailedWarning))
                     /\ fallbackCalls' = fallbackCalls + 1
  /\ pc' = "responded"
  /\ UNCHANGED <<body, apiKey, payload, modelCalls, errorLog>>

\* The completion arrives: its text is parsed and the result returned.
ModelResolves ==
  /\ pc = "awaitingModel"
  /\ \E completion \in Completions :
       /\ responseText' = Some(ResponseText(completion))
       /\ responses' = Append(responses,
                              ModelResponse(tryParsePlan(ResponseText(completion))))
  /\ pc' = "responded"
  /\ UNCHANGED <<body, apiKey, payload, modelCalls, fallbackCalls, errorLog>>

\* The catch block calls the model again before giving up.
ModelRejects_Retry ==
  /\ pc = "awaitingModel"
  /\ \E error \in ModelErrors : errorLog' = Append(errorLog, error)
  /\ IF modelCalls < 2
       THEN /\ modelCalls' = modelCalls + 1
            /\ UNCHANGED <<pc, fallbackCalls, responses>>
       ELSE /\ fallbackCalls' = fallbackCalls + 1
            /\ responses' = Append(responses,
                                   FallbackResponse(Val(payload), CallFailedWarning))
            /\ pc' = "responded"
            /\ UNCHANGED modelCalls
  /\ UNCHANGED <<body, apiKey, payload, responseText>>

\* The catch block logs the error and rethrows it.
ModelRejects_Rethrow ==
  /\ pc = "awaitingModel"
  /\ \E error \in ModelErrors : errorLog' = Append(errorLog, error)
  /\ pc' = "threw"
  /\ UNCHANGED <<body, apiKey, payload, modelCalls, fallbackCalls, responseText,
                 responses>>

\* The call rejects: the catch block logs the error and returns the
\* heuristic plan.
ModelRejects ==
  /\ pc = "awaitingModel"
  /\ \E error \in ModelErrors : errorLog' = Append(errorLog, error)
  /\ fallbackCalls' = fallbackCalls + 1
  /\ responses' = Append(responses, FallbackResponse(Val(payload), CallFailedWarning))
  /\ pc' = "responded"
  /\ UNCHANGED <<body, apiKey, payload, modelCalls, responseText>>

Next ==
  \/ BodyNotJson /\ UNCHANGED <<concVars, pageVars>>
  \/ RejectInvalid /\ UNCHANGED <<concVars, pageVars>>
  \/ FallbackNoKey /\ UNCHANGED <<concVars, pageVars>>
  \/ CallModel /\ UNCHANGED <<concVars, pageVars>>
  \/ ModelResolves /\ UNCHANGED <<concVars, pageVars>>
  \/ ModelRejects /\ UNCHANGED <<concVars, pageVars>>

Spec == Init /\ [][Next]_vars

\* ------------------------------------------------------------ properties
BriefInvalid == body.kind # "notjson" /\ ~safeParse(body).success
BriefValid == body.kind # "notjson" /\ safeParse(body).success
CredentialAbsent == apiKey \in {None, Some(<<>>)}
Reply == responses[1]

\* Neither the full text nor its outermost brace span decodes to a valid plan.
Unparseable(text) ==
  /\ ~IsSome(DecodePlan(text))
  /\ ~(IsSome(BraceSpan(text)) /\ IsSome(DecodePlan(Val(BraceSpan(text)))))

\* C1: a body that fails brief validation is answered with HTTP 400
\* carrying exactly {error, issues}; the model is not called, no fallback
\* plan is synthesized and the response carries no plan.
C1_InvalidBriefRejected ==
  BriefInvalid =>
    /\ modelCalls = 0
    /\ fallbackCalls = 0
    /\ responseText = None
    /\ pc \in {"received", "responded"}
    /\ pc = "responded" =>
         /\ Len(responses) = 1
         /\ Reply.status = 400
         /\ DOMAIN Reply.body = {"error", "issues"}
         /\ Reply.body.issues = safeParse(body).error

C1_Witness ==
  /\ pc = "responded"
  /\ body.kind = "object"
  /\ body.obj.businessName = None
  /\ Reply.status = 400
  /\ "businessName" \in DOMAIN Reply.body.issues.fieldErrors

\* C2: a valid brief with no credential configured is answered with HTTP
\* 200, the fallback plan of that brief, raw null and a warning, and the
\* model is never called.
C2_NoCredentialFallback ==
  (BriefValid /\ CredentialAbsent) =>
    /\ modelCalls = 0
    /\ pc \in {"received", "responded"}
    /\ pc = "responded" =>
         /\ Len(responses) = 1
         /\ Reply.status = 200
         /\ Reply.body.plan = Some(buildFallbackPlan(safeParse(body).data))
         /\ Reply.body.raw = None
         /\ "warning" \in DOMAIN Reply.body

C2_Witness ==
  /\ pc = "responded"
  /\ BriefValid
  /\ CredentialAbsent
  /\ Len(Val(payload).channels) = 2
  /\ IsSome(Reply.body.plan)

\* C3: with a valid brief and a credential, a failed model call is
\* answered with HTTP 200, the fallback plan of that brief, raw null and
\* the warning that the model call failed.
C3_CallFailureFallback ==
  (BriefValid /\ ~CredentialAbsent /\ errorLog # <<>>) =>
    /\ pc = "responded"
    /\ Len(responses) = 1
    /\ Reply.status = 200
    /\ Reply.body.plan = Some(buildFallbackPlan(safeParse(body).data))
    /\ Reply.body.raw = None
    /\ "warning" \in DOMAIN Reply.body
    /\ Reply.body.warning = CallFailedWarning

C3_Witness ==
  /\ pc = "responded"
  /\ errorLog = <<"ETIMEDOUT">>
  /\ modelCalls = 1
  /\ Reply.status = 200

\* C4: model text that the parser cannot turn into a valid plan is
\* answered with HTTP 200, plan null, raw equal to the text and a non-null
\* notice.
C4_UnparseableSurfacedRaw ==
  (pc = "responded" /\ IsSome(responseText) /\ Unparseable(Val(responseText))) =>
    /\ Len(responses) = 1
    /\ Reply.status = 200
    /\ Reply.body.plan = None
    /\ Reply.body.raw = responseText
    /\ "notice" \in DOMAIN Reply.body
    /\ IsSome(Reply.body.notice)

C4_Witness ==
  /\ pc = "responded"
  /\ responseText = Some(<<"x", "{", "Q", "}">>)
  /\ Reply.body.raw = Some(<<"x", "{", "Q", "}">>)

\* C5: the fallback synthesizer runs only when no credential is configured
\* or the model call failed; once response text has been received no
\* fallback plan is synthesized or returned.
C5_FallbackOnlyWhenUnavailable ==
  /\ fallbackCalls > 0 => (CredentialAbsent \/ errorLog # <<>>)
  /\ IsSome(responseText) =>
       /\ fallbackCalls = 0
       /\ \A i \in DOMAIN responses : "warning" \notin DOMAIN responses[i].body

C5_Witness ==
  /\ pc = "responded"
  /\ IsSome(responseText)
  /\ Unparseable(Val(responseText))
  /\ Reply.body.plan = None

\* C6: every request ends in exactly one normal response (HTTP 400 or
\* 200): the handler never ends in an uncaught exception and never
\* produces a second response.
C6_AlwaysOneNormalResponse ==
  /\ pc # "threw"
  /\ Len(responses) <= 1
  /\ pc = "responded" => (Len(responses) = 1 /\ Reply.status \in {400, 200})

\* C7: the model is called at most once per request, with no retry after
\* a failed call or an unparseable answer, and each outcome class is
\* resolved along its one path.
C7_SingleCallNoRetry ==
  /\ modelCalls <= 1
  /\ Len(responses) <= 1
  /\ Len(errorLog) <= 1
  /\ pc = "responded" =>
       /\ BriefInvalid => (modelCalls = 0 /\ fallbackCalls = 0 /\ Reply.status = 400)
       /\ (BriefValid /\ CredentialAbsent) => (modelCalls = 0 /\ fallbackCalls = 1)
       /\ errorLog # <<>> =>
            (modelCalls = 1 /\ fallbackCalls = 1 /\ responseText = None)
       /\ IsSome(responseText) =>
            (modelCalls = 1 /\ fallbackCalls = 0 /\ errorLog = <<>>)

C7_Witness ==
  /\ pc = "responded"
  /\ modelCalls = 1
  /\ errorLog = <<"401 Unauthorized">>
  /\ Len(responses) = 1

\* C8: in every HTTP 200 response plan is non-null exactly when raw is
\* null; a warning appears only on fallback responses and a non-null
\* notice only on responses built from model text.
C8_ExactlyOneOfPlanAndRaw ==
  \A i \in DOMAIN responses :
    responses[i].status = 200 =>
      LET b == responses[i].body
      IN  /\ IsSome(b.plan) <=> b.raw = None
          /\ "warning" \in DOMAIN b =>
               (fallbackCalls = 1 /\ responseText = None /\ "notice" \notin DOMAIN b)
          /\ ("notice" \in DOMAIN b /\ IsSome(b.notice)) =>
               (IsSome(responseText) /\ fallbackCalls = 0 /\ "warning" \notin DOMAIN b)

C8_Witness ==
  /\ pc = "responded"
  /\ responseText = Some(<<>>)
  /\ Reply.status = 200
  /\ Reply.body.plan = None
  /\ Reply.body.raw = Some(<<>>)

\* The CampaignPlan shape: the fields of every entity and no empty list.
PlanShape(p) ==
  /\ DOMAIN p = {"campaignSummary", "idealCustomerProfile", "messagingPillars",
                 "channelStrategy", "automationWorkflow", "experiments", "nextSteps"}
  /\ DOMAIN p.campaignSummary = {"northStar", "successMetrics", "positioningTheme"}
  /\ Len(p.campaignSummary.successMetrics) >= 1
  /\ DOMAIN p.idealCustomerProfile = {"companyTraits", "buyerPersona", "painPoints"}
  /\ Len(p.idealCustomerProfile.companyTraits) >= 1
  /\ Len(p.idealCustomerProfile.buyerPersona) >= 1
  /\ Len(p.idealCustomerProfile.painPoints) >= 1
  /\ Len(p.messagingPillars) >= 1
  /\ \A i \in DOMAIN p.messagingPillars :
       /\ DOMAIN p.messagingPillars[i] = {"title", "angle", "proofPoints"}
       /\ Len(p.messagingPillars[i].proofPoints) >= 1
  /\ Len(p.channelStrategy) >= 1
  /\ \A i \in DOMAIN p.channelStrategy :
       DOMAIN p.channelStrategy[i] =
         {"channel", "objective", "play", "cadence", "sampleCopy"}
  /\ Len(p.automationWorkflow) >= 1
  /\ \A i \in DOMAIN p.automationWorkflow :
       /\ DOMAIN p.automationWorkflow[i] = {"name", "trigger", "steps"}
       /\ Len(p.automationWorkflow[i].steps) >= 1
  /\ Len(p.experiments) >= 1
  /\ \A i \in DOMAIN p.experiments :
       DOMAIN p.experiments[i] = {"hypothesis", "experiment", "metric"}
  /\ Len(p.nextSteps) >= 1

\* C9: every non-null plan in a response, synthesized or derived from
\* model text, has the CampaignPlan shape with every list non-empty.
C9_EmittedPlanWellShaped ==
  \A i \in DOMAIN responses :
    ("plan" \in DOMAIN responses[i].body /\ IsSome(responses[i].body.plan)) =>
      PlanShape(Val(responses[i].body.plan))

C9_Witness ==
  /\ pc = "responded"
  /\ fallbackCalls = 1
  /\ IsSome(Reply.body.plan)
  /\ Len(Val(Reply.body.plan).channelStrategy) = 1

\* C10: the fallback plan has one ChannelPlay per channel of the brief, in
\* the brief's order, and the plays differ only in their channel field.
C10_ChannelStrategyMirrorsBrief ==
  (pc = "responded" /\ fallbackCalls = 1) =>
    LET cs == Val(Reply.body.plan).channelStrategy
        ch == safeParse(body).data.channels
    IN  /\ Len(cs) = Len(ch)
        /\ \A i \in 1..Len(ch) : cs[i].channel = ch[i]
        /\ \A i, j \in DOMAIN cs : [cs[i] EXCEPT !.channel = cs[j].channel] = cs[j]

C10_Witness ==
  /\ pc = "responded"
  /\ fallbackCalls = 1
  /\ safeParse(body).data.channels = <<"LinkedIn outreach", "Cold email">>
  /\ Len(Val(Reply.body.plan).channelStrategy) = 2

\* C11: in the fallback plan every ChannelPlay's cadence is "3x weekly"
\* when the brief's timeframe is "2 weeks" and "Weekly" when it is
\* "30 days" or "90 days".
C11_CadenceFollowsTimeframe ==
  (pc = "responded" /\ fallbackCalls = 1) =>
    LET cs == Val(Reply.body.plan).channelStrategy
        timeframe == safeParse(body).data.timeframe
    IN  /\ timeframe = "2 weeks" =>
             \A i \in DOMAIN cs : cs[i].cadence = "3x weekly"
        /\ timeframe \in {"30 days", "90 days"} =>
             \A i \in DOMAIN cs : cs[i].cadence = "Weekly"
        /\ timeframe \in {"2 weeks", "30 days", "90 days"}

C11_Witness ==
  /\ pc = "responded"
  /\ fallbackCalls = 1
  /\ safeParse(body).data.timeframe = "2 weeks"
  /\ Len(Val(Reply.body.plan).channelStrategy) = 2
  /\ Val(Reply.body.plan).channelStrategy[2].cadence = "3x weekly"

\* The text is the serialization of an object with the CampaignPlan shape.
IsPlanText(text) ==
  /\ Len(text) = 3
  /\ text[1] = "{"
  /\ text[3] = "}"
  /\ text[2] \in {"P", "Q"}
  /\ PlanShape(Members(text[2]))

\* The substring from the first "{" to the last "}" of the text, if any.
OuterSpan(text) ==
  LET opens == {i \in DOMAIN text : text[i] = "{"}
      closes == {i \in DOMAIN text : text[i] = "}"}
  IN  IF opens = {} \/ closes = {} THEN None
      ELSE LET lo == CHOOSE i \in opens : \A j \in opens : i <= j
               hi == CHOOSE i \in closes : \A j \in closes : j <= i
           IN  IF lo < hi THEN Some(SubSeq(text, lo, hi)) ELSE None

\* C13: the parser returns a plan exactly when the full text decodes to a
\* valid plan (raw and message null) or, failing that, the span from the
\* first "{" to the last "}" does (message notes the recovery); otherwise
\* plan is null and raw is the original text.
C13_ParserOutcomes ==
  IsSome(responseText) =>
    LET text == Val(responseText)
        result == tryParsePlan(text)
        direct == IsPlanText(text)
        recovered == ~direct /\ IsSome(OuterSpan(text)) /\ IsPlanText(Val(OuterSpan(text)))
    IN  /\ IsSome(result.plan) <=> (direct \/ recovered)
        /\ direct => (result.plan = Some(Members(text[2])) /\ result.raw = None
                      /\ result.message = None)
        /\ recovered => (result.plan = Some(Members(Val(OuterSpan(text))[2]))
                         /\ result.raw = None /\ IsSome(result.message))
        /\ (~direct /\ ~recovered) => (result.plan = None /\ result.raw = Some(text))

C13_Witness ==
  /\ pc = "responded"
  /\ responseText = Some(<<"}", "{", "P", "}", "x">>)
  /\ IsSome(Reply.body.plan)
  /\ Reply.body.notice = Some(RecoveredMessage)

\* ------------------------------------------- two concurrent requests
\* The handler has no module-level state of its own: everything it assigns
\* is a local of one invocation.  The process-wide locations it touches are
\* process.env.OPENAI_API_KEY (read) and the console (written).
Reqs == {1, 2}

ConcBodies ==
  {[kind |-> "notjson", obj |-> BaseBrief],
   [kind |-> "object", obj |-> BaseBrief],
   [kind |-> "object", obj |-> [BaseBrief EXCEPT !.businessName = None]],
   [kind |-> "object",
    obj |-> [BaseBrief EXCEPT !.channels = Some(<<"LinkedIn outreach", "Cold email">>),
                              !.timeframe = Some("2 weeks")]]}

ConcCompletions ==
  {[choices |-> <<>>],
   [choices |-> << [message |-> [content |-> Some(<<"x">>)]] >>],
   [choices |-> << [message |-> [content |-> Some(<<"{", "P", "}">>)]] >>]}

NewRequest(b) ==
  [body |-> b, pc |-> "received", payload |-> None, outcome |-> None,
   responseText |-> None, responses |-> <<>>, modelCalls |-> 0, fallbackCalls |-> 0]

Access(r, loc, mode) == [req |-> r, loc |-> loc, mode |-> mode]

ConcInit ==
  /\ reqs \in [Reqs -> {NewRequest(b) : b \in ConcBodies}]
  /\ accessLog = {}
  /\ apiKey \in ApiKeys
  /\ errorLog = <<>>
  /\ body = [kind |-> "notjson", obj |-> BaseBrief]
  /\ pc = "off"
  /\ payload = None
  /\ modelCalls = 0
  /\ fallbackCalls = 0
  /\ responseText = None
  /\ responses = <<>>
  /\ PageOff

ConcFrame ==
  UNCHANGED <<body, apiKey, pc, payload, modelCalls, fallbackCalls, responseText,
              responses, pageVars>>

RequestBodyNotJson(r) ==
  /\ reqs[r].pc = "received"
  /\ reqs[r].body.kind = "notjson"
  /\ reqs' = [reqs EXCEPT ![r].pc = "threw"]
  /\ UNCHANGED <<accessLog, errorLog>>
  /\ ConcFrame

RequestRejectInvalid(r) ==
  /\ reqs[r].pc = "received"
  /\ reqs[r].body.kind # "notjson"
  /\ ~safeParse(reqs[r].body).success
  /\ reqs' = [reqs EXCEPT
                ![r].responses = Append(@, InvalidResponse(safeParse(reqs[r].body))),
                ![r].pc = "responded"]
  /\ UNCHANGED <<accessLog, errorLog>>
  /\ ConcFrame

RequestFallbackNoKey(r) ==
  /\ reqs[r].pc = "received"
  /\ reqs[r].body.kind # "notjson"
  /\ safeParse(reqs[r].body).success
  /\ ~Truthy(apiKey)
  /\ accessLog' = accessLog \cup {Access(r, "process.env.OPENAI_API_KEY", "read")}
  /\ reqs' = [reqs EXCEPT
                ![r].payload = Some(safeParse(reqs[r].body).data),
                ![r].fallbackCalls = @ + 1,
                ![r].responses =
                   Append(@, FallbackResponse(safeParse(reqs[r].body).data, NoKeyWarning)),
                ![r].pc = "responded"]
  /\ UNCHANGED errorLog
  /\ ConcFrame

RequestCallModel(r) ==
  /\ reqs[r].pc = "received"
  /\ reqs[r].body.kind # "notjson"
  /\ safeParse(reqs[r].body).success
  /\ Truthy(apiKey)
  /\ accessLog' = accessLog \cup {Access(r, "process.env.OPENAI_API_KEY", "read")}
  /\ reqs' = [reqs EXCEPT
                ![r].payload = Some(safeParse(reqs[r].body).data),
                ![r].modelCalls = @ + 1,
                ![r].pc = "awaitingModel"]
  /\ UNCHANGED errorLog
  /\ ConcFrame

RequestModelResolves(r) ==
  /\ reqs[r].pc = "awaitingModel"
  /\ \E completion \in ConcCompletions :
       reqs' = [reqs EXCEPT
                  ![r].outcome = Some([kind |-> "completion", value |-> completion]),
                  ![r].responseText = Some(ResponseText(completion)),
                  ![r].responses =
                     Append(@, ModelResponse(tryParsePlan(ResponseText(completion)))),
                  ![r].pc = "responded"]
  /\ UNCHANGED <<accessLog, errorLog>>
  /\ ConcFrame

\* The payload kept in one module-level variable: the catch block
\* synthesizes from whichever request validated last.
RequestModelRejects_SharedPayload(r) ==
  /\ reqs[r].pc = "awaitingModel"
  /\ \E error \in ModelErrors :
       LET other == CHOOSE q \in Reqs : q # r
           shared == IF IsSome(reqs[other].payload) THEN reqs[other].payload
                     ELSE reqs[r].payload
       IN  /\ errorLog' = Append(errorLog, error)
           /\ accessLog' = accessLog \cup {Access(r, "console", "write"),
                                           Access(r, "payload", "read"),
                                           Access(other, "payload", "write")}
           /\ reqs' = [reqs EXCEPT
                         ![r].outcome = Some([kind |-> "error", value |-> error]),
                         ![r].fallbackCalls = @ + 1,
                         ![r].responses =
                            Append(@, FallbackResponse(Val(shared), CallFailedWarning)),
                         ![r].pc = "responded"]
  /\ ConcFrame

\* The error's text put into the warning sent to the client.
RequestModelRejects_LeakError(r) ==
  /\ reqs[r].pc = "awaitingModel"
  /\ \E error \in ModelErrors :
       /\ errorLog' = Append(errorLog, error)
       /\ accessLog' = accessLog \cup {Access(r, "console", "write")}
       /\ reqs' = [reqs EXCEPT
                     ![r].outcome = Some([kind |-> "error", value |-> error]),
                     ![r].fallbackCalls = @ + 1,
                     ![r].responses =
                        Append(@, FallbackResponse(Val(reqs[r].payload), error)),
                     ![r].pc = "responded"]
  /\ ConcFrame

RequestModelRejects(r) ==
  /\ reqs[r].pc = "awaitingModel"
  /\ \E error \in ModelErrors :
       /\ errorLog' = Append(errorLog, error)
       /\ accessLog' = accessLog \cup {Access(r, "console", "write")}
       /\ reqs' = [reqs EXCEPT
                     ![r].outcome = Some([kind |-> "error", value |-> error]),
                     ![r].fallbackCalls = @ + 1,
                     ![r].responses =
                        Append(@, FallbackResponse(Val(reqs[r].payload), CallFailedWarning)),
                     ![r].pc = "responded"]
  /\ ConcFrame

ConcNext ==
  \E r \in Reqs :
    \/ RequestBodyNotJson(r)
    \/ RequestRejectInvalid(r)
    \/ RequestFallbackNoKey(r)
    \/ RequestCallModel(r)
    \/ RequestModelResolves(r)
    \/ RequestModelRejects(r)

ConcSpec == ConcInit /\ [][ConcNext]_vars

\* C12: when the model call fails, the response does not depend on the
\* error: two requests with the same brief whose calls failed get the same
\* response, whatever the two errors were, and the errors are in the log.
C12_ResponseIndependentOfError ==
  \A r, q \in Reqs :
    (/\ reqs[r].body = reqs[q].body
     /\ IsSome(reqs[r].outcome) /\ Val(reqs[r].outcome).kind = "error"
     /\ IsSome(reqs[q].outcome) /\ Val(reqs[q].outcome).kind = "error") =>
      /\ reqs[r].responses = reqs[q].responses
      /\ Len(reqs[r].responses) = 1
      /\ \E i \in DOMAIN errorLog : errorLog[i] = Val(reqs[r].outcome).value

C12_Witness ==
  /\ reqs[1].body = reqs[2].body
  /\ reqs[1].outcome = Some([kind |-> "error", value |-> "ETIMEDOUT"])
  /\ reqs[2].outcome = Some([kind |-> "error", value |-> "401 Unauthorized"])
  /\ reqs[1].pc = "responded"
  /\ reqs[2].pc = "responded"

\* What one request handled alone is answered, given its body, the
\* credential and the outcome of its own model call.
RepliesAlone(b, key, outcome) ==
  IF b.kind = "notjson" THEN <<>>
  ELSE IF ~safeParse(b).success THEN <<InvalidResponse(safeParse(b))>>
  ELSE IF key \in {None, Some(<<>>)}
    THEN <<FallbackResponse(safeParse(b).data, NoKeyWarning)>>
  ELSE IF ~IsSome(outcome) THEN <<>>
  ELSE IF Val(outcome).kind = "error"
    THEN <<FallbackResponse(safeParse(b).data, CallFailedWarning)>>
  ELSE <<ModelResponse(tryParsePlan(ResponseText(Val(outcome).value)))>>

\* C14: under every interleaving of two requests, the response to each is
\* the one its own body, the credential and its own model call determine,
\* and no location written for one request is read for the other.
C14_RequestsIndependent ==
  /\ \A r \in Reqs :
       reqs[r].pc \in {"responded", "threw"} =>
         reqs[r].responses = RepliesAlone(reqs[r].body, apiKey, reqs[r].outcome)
  /\ \A w, rd \in accessLog :
       (w.mode = "write" /\ rd.mode = "read" /\ w.loc = rd.loc) => w.req = rd.req

C14_Witness ==
  /\ reqs[1].pc = "responded"
  /\ reqs[2].pc = "awaitingModel"
  /\ reqs[1].body # reqs[2].body
  /\ IsSome(reqs[1].outcome)
  /\ Val(reqs[1].outcome).kind = "error"
  /\ reqs[2].modelCalls = 1

\* ------------------------------------------------------------- the page
\* What the user can type into a text input and which options the user
\* can toggle.
TypedValues == {<<>>, <<"A">>}
ToggleOptions(key) ==
  IF key = "channels" THEN {"LinkedIn outreach"} ELSE {"Book discovery calls"}

\* error.flatten().fieldErrors: the messages of each failing field.
flattenFieldErrors(zodError) ==
  [f \in DOMAIN zodError.fieldErrors |-> <<zodError.fieldErrors[f]>>]

\* JSON.stringify(payload) as the route reads it back.
ToJson(data) ==
  [kind |-> "object",
   obj |-> [f \in DOMAIN data |-> IF f = "notes" THEN data[f] ELSE Some(data[f])]]

PageCompletions ==
  {[choices |-> <<>>],
   [choices |-> << [message |-> [content |-> Some(<<"x">>)]] >>],
   [choices |-> << [message |-> [content |-> Some(<<"x", "{", "P", "}">>)]] >>]}

\* The responses the route can give to the payload.
RouteResponses(data) ==
  UNION {IF ~parsed.success
           THEN {InvalidResponse(parsed)}
           ELSE {FallbackResponse(parsed.data, NoKeyWarning),
                 FallbackResponse(parsed.data, CallFailedWarning)}
                \cup {ModelResponse(tryParsePlan(ResponseText(c))) : c \in PageCompletions}
         : parsed \in {safeParse(ToJson(data))}}

\* What fetch can resolve to: a response of the route, or a non-OK response
\* made by the platform, with a JSON body or without one.
Replies(data) ==
  {[status |-> x.status, json |-> Some(x.body)] : x \in RouteResponses(data)}
  \cup {[status |-> 500, json |-> Some([error |-> "Internal Server Error"])],
        [status |-> 500, json |-> Some([message |-> "Internal Server Error"])],
        [status |-> 502, json |-> None]}

\* The forms the user can bring about, the payloads they validate to, and
\* for each payload what fetch can resolve to.
Forms ==
  {[defaultState EXCEPT !.businessName = Some(n), !.goals = Some(g), !.channels = Some(c)] :
     n \in TypedValues, g \in SeqsUpTo(ToggleOptions("goals"), 1),
     c \in {<<"Cold email">>, <<"Cold email", "LinkedIn outreach">>}}

Payloads ==
  {safeParse([kind |-> "object", obj |-> f]).data :
     f \in {g \in Forms : safeParse([kind |-> "object", obj |-> g]).success}}

RepliesTo == [data \in Payloads |-> Replies(data)]

Ok(reply) == reply.status >= 200 /\ reply.status <= 299

UnexpectedErrorMessage == "Unexpected error from the lead generation agent. Try again."
NetworkErrorMessage == "Network error. Check your connection and try generating again."
GeneratedMessage == "Campaign blueprint generated!"

\* The status line chosen for an OK response.
StatusOf(data) ==
  IF "warning" \in DOMAIN data /\ data.warning # "" THEN data.warning
  ELSE IF "notice" \in DOMAIN data /\ IsSome(data.notice) THEN Val(data.notice)
  ELSE GeneratedMessage

\* What PlanPreview renders for the props plan and raw.
PlanPreview(planProp, raw) ==
  IF ~IsSome(planProp) /\ ~Truthy(raw) THEN [kind |-> "placeholder"]
  ELSE IF ~IsSome(planProp) THEN [kind |-> "Raw AI Response", text |-> Val(raw)]
  ELSE [kind |-> "sections", plan |-> Val(planProp)]

PageInit ==
  /\ PageOff
  /\ ConcOff
  /\ body = [kind |-> "notjson", obj |-> BaseBrief]
  /\ apiKey = None
  /\ pc = "off"
  /\ payload = None
  /\ modelCalls = 0
  /\ fallbackCalls = 0
  /\ responseText = None
  /\ errorLog = <<>>
  /\ responses = <<>>

PageFrame == UNCHANGED <<serverVars, concVars>>

updateField(key, value) ==
  /\ form' = [form EXCEPT ![key] = Some(value)]
  /\ untouched' = FALSE
  /\ UNCHANGED <<errors, loading, plan, rawPlan, statusMessage, submit, submitBit,
                 applied>>
  /\ PageFrame

toggleSelection(value, key) ==
  LET selected == Val(form[key])
      next == IF \E i \in DOMAIN selected : selected[i] = value
                THEN SelectSeq(selected, LAMBDA v : v # value)
                ELSE Append(selected, value)
  IN  updateField(key, next)

resetForm ==
  /\ form' = defaultState
  /\ errors' = <<>>
  /\ plan' = None
  /\ rawPlan' = None
  /\ statusMessage' = None
  /\ untouched' = TRUE
  /\ applied' = None
  /\ UNCHANGED <<loading, submit, submitBit>>
  /\ PageFrame

\* The return after setErrors left out: the form is sent all the same.
handleSubmitInvalid_NoReturn ==
  /\ ~loading
  /\ submit.pc = "idle"
  /\ ~safeParse([kind |-> "object", obj |-> form]).success
  /\ LET messages == flattenFieldErrors(safeParse([kind |-> "object", obj |-> form]).error)
     IN  errors' = [f \in DOMAIN messages |-> messages[f][1]]
  /\ statusMessage' = None
  /\ loading' = TRUE
  /\ submit' = [pc |-> "fetching", payload |-> [f \in DOMAIN form |-> form[f]]]
  /\ submitBit' = ~submitBit
  /\ untouched' = FALSE
  /\ applied' = None
  /\ UNCHANGED <<form, plan, rawPlan>>
  /\ PageFrame

\* handleSubmit when the form fails the schema: the first message of every
\* failing field is shown and nothing is sent.
handleSubmitInvalid ==
  /\ ~loading
  /\ submit.pc = "idle"
  /\ ~safeParse([kind |-> "object", obj |-> form]).success
  /\ LET messages == flattenFieldErrors(safeParse([kind |-> "object", obj |-> form]).error)
     IN  errors' = [f \in {g \in DOMAIN messages : Len(messages[g]) >= 1} |->
                      messages[f][1]]
  /\ statusMessage' = None
  /\ submitBit' = ~submitBit
  /\ untouched' = FALSE
  /\ applied' = None
  /\ UNCHANGED <<form, loading, plan, rawPlan, submit>>
  /\ PageFrame

\* handleSubmit when the form passes: the payload is posted and the
\* handler waits for fetch.
handleSubmitValid ==
  /\ ~loading
  /\ submit.pc = "idle"
  /\ safeParse([kind |-> "object", obj |-> form]).success
  /\ errors' = <<>>
  /\ statusMessage' = None
  /\ loading' = TRUE
  /\ submit' = [pc |-> "fetching",
                payload |-> safeParse([kind |-> "object", obj |-> form]).data]
  /\ submitBit' = ~submitBit
  /\ untouched' = FALSE
  /\ applied' = None
  /\ UNCHANGED <<form, plan, rawPlan>>
  /\ PageFrame

\* fetch resolves with a response; the handler waits for its JSON.
FetchResolves ==
  /\ submit.pc = "fetching"
  /\ \E reply \in RepliesTo[submit.payload] :
       submit' = [pc |-> "readingJson", payload |-> submit.payload, reply |-> reply]
  /\ UNCHANGED <<form, errors, loading, plan, rawPlan, statusMessage, submitBit,
                 untouched, applied>>
  /\ PageFrame

\* The catch block without the finally block: loading is left set.
FetchRejects_NoFinally ==
  /\ submit.pc = "fetching"
  /\ statusMessage' = Some(NetworkErrorMessage)
  /\ submit' = [pc |-> "idle"]
  /\ UNCHANGED <<form, errors, loading, plan, rawPlan, submitBit, untouched, applied>>
  /\ PageFrame

\* fetch rejects: the catch block, then the finally block.
FetchRejects ==
  /\ submit.pc = "fetching"
  /\ statusMessage' = Some(NetworkErrorMessage)
  /\ loading' = FALSE
  /\ submit' = [pc |-> "idle"]
  /\ UNCHANGED <<form, errors, plan, rawPlan, submitBit, untouched, applied>>
  /\ PageFrame

\* response.json() resolves for a non-OK response.
JsonResolvesNotOk ==
  /\ submit.pc = "readingJson"
  /\ ~Ok(submit.reply)
  /\ IsSome(submit.reply.json)
  /\ LET data == Val(submit.reply.json)
     IN  statusMessage' = Some(IF "error" \in DOMAIN data THEN data.error
                               ELSE UnexpectedErrorMessage)
  /\ plan' = None
  /\ rawPlan' = None
  /\ loading' = FALSE
  /\ submit' = [pc |-> "idle"]
  /\ UNCHANGED <<form, errors, submitBit, untouched, applied>>
  /\ PageFrame

\* response.json() resolves for an OK response.
JsonResolvesOk ==
  /\ submit.pc = "readingJson"
  /\ Ok(submit.reply)
  /\ IsSome(submit.reply.json)
  /\ LET data == Val(submit.reply.json)
     IN  /\ plan' = data.plan
         /\ rawPlan' = data.raw
         /\ statusMessage' = Some(StatusOf(data))
  /\ applied' = Some(submit.reply)
  /\ loading' = FALSE
  /\ submit' = [pc |-> "idle"]
  /\ UNCHANGED <<form, errors, submitBit, untouched>>
  /\ PageFrame

\* response.json() rejects: the catch block, then the finally block.
JsonRejects ==
  /\ submit.pc = "readingJson"
  /\ ~IsSome(submit.reply.json)
  /\ statusMessage' = Some(NetworkErrorMessage)
  /\ loading' = FALSE
  /\ submit' = [pc |-> "idle"]
  /\ UNCHANGED <<form, errors, plan, rawPlan, submitBit, untouched, applied>>
  /\ PageFrame

FetchSettles == FetchResolves \/ FetchRejects
JsonSettles == JsonResolvesNotOk \/ JsonResolvesOk \/ JsonRejects

PageNext ==
  \/ \E value \in TypedValues : updateField("businessName", value)
  \/ \E key \in {"goals", "channels"} :
       \E value \in ToggleOptions(key) : toggleSelection(value, key)
  \/ resetForm
  \/ handleSubmitInvalid
  \/ handleSubmitValid
  \/ FetchResolves
  \/ FetchRejects
  \/ JsonResolvesNotOk
  \/ JsonResolvesOk
  \/ JsonRejects

PageSpec == PageInit /\ [][PageNext]_vars

\* A request that was sent settles: fetch resolves or rejects, and so does
\* the reading of the response body.
FairPageSpec == PageSpec /\ WF_vars(FetchSettles) /\ WF_vars(JsonSettles)

\* C15: whenever the route answered on the raw-surfaced path (plan null,
\* raw the model's text), the page shows the "Raw AI Response" view with
\* exactly that text, the empty text included; never the placeholder.
C15_RawResponseShown ==
  (/\ IsSome(applied)
   /\ Val(applied).status = 200
   /\ Val(Val(applied).json).plan = None
   /\ IsSome(Val(Val(applied).json).raw)) =>
    PlanPreview(plan, rawPlan) =
      [kind |-> "Raw AI Response", text |-> Val(Val(Val(applied).json).raw)]

\* C16: handleSubmit posts only a form that passes the schema; for a form
\* that fails it nothing is sent, errors holds the first message of each
\* failing field, and loading, plan and rawPlan keep their values.
C16_SubmitOnlyValidForms ==
  [][submitBit' # submitBit =>
       IF safeParse([kind |-> "object", obj |-> form]).success
         THEN /\ submit'.pc = "fetching"
              /\ submit'.payload = safeParse([kind |-> "object", obj |-> form]).data
         ELSE /\ submit' = submit
              /\ submit.pc = "idle"
              /\ DOMAIN errors' = FailingFields(form)
              /\ \A f \in FailingFields(form) : errors'[f] = Val(FieldError(f, form[f]))
              /\ loading' = loading
              /\ plan' = plan
              /\ rawPlan' = rawPlan]_vars

C16_Witness ==
  /\ submit.pc = "idle"
  /\ ~loading
  /\ DOMAIN errors = {"businessName", "goals"}
  /\ errors["businessName"] = "Must not be empty"
  /\ errors["goals"] = "Select at least one"
  /\ IsSome(plan)
  /\ ~untouched

\* C17: loading is true exactly while a submitted request has not settled,
\* and after every submit it returns to false.
C17_LoadingTracksRequest ==
  /\ [](loading <=> submit.pc # "idle")
  /\ (loading ~> ~loading)

C17_Witness ==
  /\ loading
  /\ submit.pc = "readingJson"
  /\ submit.reply.status = 500
  /\ form # defaultState

\* C18: after resetForm, plan, rawPlan and statusMessage stay null and the
\* form stays the sample until the user edits or submits again, also when
\* a request was in flight at the reset.
C18_ResetStaysClean ==
  untouched =>
    /\ plan = None
    /\ rawPlan = None
    /\ statusMessage = None
    /\ form = defaultState

====
